---------------------------- MODULE Spec2Model ----------------------------
(***************************************************************************)
(* Model of the whale-radar scoring core (src/rust/src/lib.rs and          *)
(* src/rust/src/scoring.rs): the entry classifier, the aggregator, the     *)
(* scoring formulas and the wallet clusterer.                              *)
(*                                                                         *)
(* Every function of the crate is pure.  Each is translated line by line   *)
(* into an operator, and a specification per component draws the inputs    *)
(* in its Init and applies the functions in its actions.                   *)
(*                                                                         *)
(* f64 values are IEEE-754 binary64 values: every arithmetic operation     *)
(* rounds its exact result to the nearest representable value, ties to     *)
(* even, with signed zeros, subnormals, infinities and NaN.  Mantissas     *)
(* have 53 bits and are held as sequences of limbs.  u64 values are        *)
(* naturals.                                                               *)
(***************************************************************************)
EXTENDS Integers, Sequences, FiniteSets

VARIABLES
    pc,                   \* position of the caller: which function runs next
    \* is_early_entry (lib.rs:164-170)
    block_time, token_creation_time, window_seconds, time_diff, early,
    \* calculate_whale_score / DynamicScorer::calculate_score
    stats, whale_score, dynamic_score,
    \* calculate_insider_confidence
    insider_args, insider_confidence,
    \* process_interactions / calculate_batch_stats
    interactions, wallet_stats, batch_stats,
    \* WalletClusterer::cluster_wallets
    stats_map, similarity_threshold, iter_order, clusters

entry_vars   == <<block_time, token_creation_time, window_seconds, time_diff, early>>
score_vars   == <<stats, whale_score, dynamic_score, insider_args, insider_confidence>>
agg_vars     == <<interactions, wallet_stats, batch_stats>>
cluster_vars == <<stats_map, similarity_threshold, iter_order, clusters>>
vars         == <<pc, entry_vars, score_vars, agg_vars, cluster_vars>>

---------------------------------------------------------------------------
(* Bounds of the model.                                                    *)

\* Largest timestamp / window drawn for is_early_entry; it plays u64::MAX.
MaxTime == 5
\* Largest small interaction / early-entry count drawn for the scorers.
MaxCount == 3
\* Longest interaction sequence given to the aggregator.
MaxInteractions == 3
\* Largest number of wallets in a stats map.
MaxWallets == 3

---------------------------------------------------------------------------
(* f64 arithmetic: IEEE-754 binary64 with round-to-nearest, ties to even,  *)
(* after every operation, as the compiled code performs it.                *)

(* Natural numbers of any size: little-endian sequences of limbs in        *)
(* 0..LimbBase-1 without a zero top limb (TLC's integers have 32 bits).    *)
LimbBits == 15
LimbBase == 2^LimbBits

Limb(a, i) == IF i <= Len(a) THEN a[i] ELSE 0

RECURSIVE BTrim(_)
BTrim(a) ==
    IF a = <<>> THEN a
    ELSE IF a[Len(a)] = 0 THEN BTrim(SubSeq(a, 1, Len(a) - 1))
    ELSE a

RECURSIVE BFromInt(_)
BFromInt(n) == IF n = 0 THEN <<>> ELSE <<n % LimbBase>> \o BFromInt(n \div LimbBase)

RECURSIVE BCmpAt(_, _, _)
BCmpAt(a, b, i) ==
    IF i = 0 THEN 0
    ELSE IF a[i] < b[i] THEN -1
    ELSE IF a[i] > b[i] THEN 1
    ELSE BCmpAt(a, b, i - 1)

\* -1, 0 or 1 as a < b, a = b or a > b.
BCmp(a, b) ==
    IF Len(a) < Len(b) THEN -1
    ELSE IF Len(a) > Len(b) THEN 1
    ELSE BCmpAt(a, b, Len(a))

RECURSIVE BAddAt(_, _, _, _, _)
BAddAt(a, b, i, carry, n) ==
    IF i > n THEN (IF carry = 0 THEN <<>> ELSE <<carry>>)
    ELSE LET t == Limb(a, i) + Limb(b, i) + carry
         IN  <<t % LimbBase>> \o BAddAt(a, b, i + 1, t \div LimbBase, n)

BAdd(a, b) == BAddAt(a, b, 1, 0, IF Len(a) > Len(b) THEN Len(a) ELSE Len(b))

RECURSIVE BSubAt(_, _, _, _)
BSubAt(a, b, i, borrow) ==
    IF i > Len(a) THEN <<>>
    ELSE LET t == a[i] - Limb(b, i) - borrow
         IN  IF t < 0 THEN <<t + LimbBase>> \o BSubAt(a, b, i + 1, 1)
             ELSE <<t>> \o BSubAt(a, b, i + 1, 0)

\* a - b for a >= b.
BSub(a, b) == BTrim(BSubAt(a, b, 1, 0))

RECURSIVE BMulSmallAt(_, _, _, _)
BMulSmallAt(a, k, i, carry) ==
    IF i > Len(a) THEN (IF carry = 0 THEN <<>> ELSE <<carry>>)
    ELSE LET t == a[i] * k + carry
         IN  <<t % LimbBase>> \o BMulSmallAt(a, k, i + 1, t \div LimbBase)

\* a * k for 0 <= k < LimbBase.
BMulSmall(a, k) == IF k = 0 THEN <<>> ELSE BMulSmallAt(a, k, 1, 0)

BShlLimbs(a, n) ==
    IF a = <<>> THEN a
    ELSE [i \in 1..(Len(a) + n) |-> IF i <= n THEN 0 ELSE a[i - n]]

\* a * 2^bits
BShl(a, bits) ==
    BShlLimbs(BMulSmall(a, 2^(bits % LimbBits)), bits \div LimbBits)

RECURSIVE BDivSmallAt(_, _, _, _)
BDivSmallAt(a, k, i, rem) ==
    IF i = 0 THEN <<>>
    ELSE LET t == rem * LimbBase + a[i]
         IN  Append(BDivSmallAt(a, k, i - 1, t % k), t \div k)

\* floor(a / k) for 0 < k < LimbBase.
BDivSmall(a, k) == BTrim(BDivSmallAt(a, k, Len(a), 0))

\* a without its n lowest limbs.
BShrLimbs(a, n) == IF n >= Len(a) THEN <<>> ELSE SubSeq(a, n + 1, Len(a))

\* floor(a / 2^bits)
BShr(a, bits) == BDivSmall(BShrLimbs(a, bits \div LimbBits), 2^(bits % LimbBits))

RECURSIVE BMulAt(_, _, _)
BMulAt(a, b, i) ==
    IF i > Len(b) THEN <<>>
    ELSE BAdd(BShlLimbs(BMulSmall(a, b[i]), i - 1), BMulAt(a, b, i + 1))

BMul(a, b) == BMulAt(a, b, 1)

RECURSIVE BitLenSmall(_)
BitLenSmall(x) == IF x = 0 THEN 0 ELSE 1 + BitLenSmall(x \div 2)

BBitLen(a) ==
    IF a = <<>> THEN 0 ELSE LimbBits * (Len(a) - 1) + BitLenSmall(a[Len(a)])

BIsOdd(a) == a # <<>> /\ a[1] % 2 = 1

RECURSIVE BDigitDown(_, _, _)
\* The largest q <= qhat with d * q <= r.
BDigitDown(r, d, qhat) ==
    IF BCmp(BMulSmall(d, qhat), r) > 0 THEN BDigitDown(r, d, qhat - 1) ELSE qhat

BDigitFrom(r, d, est) ==
    BDigitDown(r, d, IF est > LimbBase - 1 THEN LimbBase - 1 ELSE est)

\* floor(r / d) for r < d * LimbBase and a divisor d whose top limb is at
\* least LimbBase / 2: the estimate from the top limbs is at most 2 too large.
BDigit(r, d) ==
    IF BCmp(r, d) < 0 THEN 0
    ELSE BDigitFrom(r, d,
                    (Limb(r, Len(d) + 1) * LimbBase + r[Len(d)]) \div d[Len(d)])

RECURSIVE BDivModAt(_, _, _, _, _)
RECURSIVE BDivModStep(_, _, _, _, _, _)
\* Long division, from limb i of a down; returns <<quotient, remainder>>
\* where q and r are the quotient and remainder of the limbs above i.
BDivModAt(a, d, i, q, r) ==
    IF i = 0 THEN <<q, r>>
    ELSE BDivModStep(a, d, i, q, BTrim(<<a[i]>> \o r),
                     BDigit(BTrim(<<a[i]>> \o r), d))

\* The step at limb i with the running remainder r1 and its quotient digit.
BDivModStep(a, d, i, q, r1, digit) ==
    IF digit = 0 THEN BDivModAt(a, d, i - 1, <<0>> \o q, r1)
    ELSE BDivModAt(a, d, i - 1, <<digit>> \o q, BSub(r1, BMulSmall(d, digit)))

BTrimQuotient(qr) == <<BTrim(qr[1]), qr[2]>>

\* <<floor(a / d), a mod d>> for a divisor d whose top limb is at least
\* LimbBase / 2: the limbs of a above the first digit are below d.
BDivMod(a, d) ==
    IF Len(a) < Len(d) THEN <<<<>>, a>>
    ELSE BTrimQuotient(BDivModAt(a, d, Len(a) - Len(d) + 1, <<>>,
                                 SubSeq(a, Len(a) - Len(d) + 2, Len(a))))

(* IEEE-754 binary64.  A value is <<kind, sign, mant, exp>>: kind "num"    *)
(* is sign * mant * 2^exp with sign 1 or -1 and mant a natural below 2^53   *)
(* (at least 2^52 unless exp is the least exponent; <<>> for zero); "inf"  *)
(* is the infinity of that sign; "nan" is NaN.                              *)
MantBits == 53
MinExp == -1074
MaxTop == 1024

NaN == <<"nan", 1, <<>>, 0>>
Inf(s) == <<"inf", s, <<>>, 0>>
Zero(s) == <<"num", s, <<>>, 0>>
IsNaN(x) == x[1] = "nan"
IsInf(x) == x[1] = "inf"
IsZero(x) == x[1] = "num" /\ x[3] = <<>>

\* sign * m * 2^e for a mantissa m of at most MantBits bits: infinity when
\* it is beyond the largest finite value.
Pack(s, m, e) ==
    IF m = <<>> THEN Zero(s)
    ELSE IF BBitLen(m) + e > MaxTop THEN Inf(s)
    ELSE <<"num", s, m, e>>

\* The same for a mantissa that rounding up may have carried to 2^MantBits.
PackCarried(s, m, e) ==
    IF BBitLen(m) > MantBits THEN Pack(s, BShr(m, 1), e + 1) ELSE Pack(s, m, e)

\* Whether the quotient q is rounded up, where c compares twice the dropped
\* bits with the unit: above half, or half and q odd.
RoundsUp(q, c) == c > 0 \/ (c = 0 /\ BIsOdd(q))

\* n * 2^e with its drop > 0 lowest bits rounded away, q = floor(n / 2^drop).
RoundDropped(s, n, e, drop, q) ==
    PackCarried(s,
                IF RoundsUp(q, BCmp(BShl(BSub(n, BShl(q, drop)), 1),
                                    BShl(<<1>>, drop)))
                THEN BAdd(q, <<1>>) ELSE q,
                e + drop)

RoundBy(s, n, e, drop) ==
    IF drop <= 0
    THEN Pack(s, BShl(n, -drop), e + drop)
    ELSE RoundDropped(s, n, e, drop, BShr(n, drop))

\* The bits to drop from a natural of len bits: those beyond MantBits, and
\* those below the least exponent.
RoundLen(s, n, e, len) ==
    RoundBy(s, n, e,
            IF len - MantBits > MinExp - e THEN len - MantBits ELSE MinExp - e)

\* sign * n * 2^e rounded to the nearest binary64, ties to even.
Round(s, n, e) == IF n = <<>> THEN Zero(s) ELSE RoundLen(s, n, e, BBitLen(n))

\* `k as f64` for an unsigned integer k.
AsF64(k) == Round(1, BFromInt(k), 0)

FNeg(x) == IF IsNaN(x) THEN x ELSE <<x[1], -x[2], x[3], x[4]>>
FAbs(x) == IF IsNaN(x) THEN x ELSE <<x[1], 1, x[3], x[4]>>

\* Comparison of the magnitudes of two finite non-zero values whose top
\* bits are at tx and ty: -1, 0 or 1.
MagCmpTops(x, y, tx, ty) ==
    IF tx < ty THEN -1
    ELSE IF tx > ty THEN 1
    ELSE IF x[4] >= y[4] THEN BCmp(BShl(x[3], x[4] - y[4]), y[3])
    ELSE BCmp(x[3], BShl(y[3], y[4] - x[4]))

\* Comparison of the magnitudes of two finite values: -1, 0 or 1.
MagCmp(x, y) ==
    IF x[3] = <<>> \/ y[3] = <<>>
    THEN (IF x[3] = y[3] THEN 0 ELSE IF x[3] = <<>> THEN -1 ELSE 1)
    ELSE MagCmpTops(x, y, BBitLen(x[3]) + x[4], BBitLen(y[3]) + y[4])

\* -1, 0 or 1 as the integer a is below, equal to or above b.
IntCmp(a, b) == IF a < b THEN -1 ELSE IF a > b THEN 1 ELSE 0

\* Comparison of two non-NaN values: -1, 0 or 1.
FCmp(x, y) ==
    IF IsInf(x) \/ IsInf(y)
    THEN IntCmp(IF IsInf(x) THEN x[2] ELSE 0, IF IsInf(y) THEN y[2] ELSE 0)
    ELSE IF IsZero(x) /\ IsZero(y) THEN 0
    ELSE IF IsZero(x) THEN -y[2]
    ELSE IF IsZero(y) THEN x[2]
    ELSE IF x[2] # y[2] THEN x[2]
    ELSE x[2] * MagCmp(x, y)

FLe(x, y) == ~IsNaN(x) /\ ~IsNaN(y) /\ FCmp(x, y) <= 0
FLt(x, y) == ~IsNaN(x) /\ ~IsNaN(y) /\ FCmp(x, y) < 0
FGe(x, y) == ~IsNaN(x) /\ ~IsNaN(y) /\ FCmp(x, y) >= 0
FGt(x, y) == ~IsNaN(x) /\ ~IsNaN(y) /\ FCmp(x, y) > 0

\* f64::min: the other operand when one is NaN.
FMin(x, y) ==
    IF IsNaN(x) THEN y ELSE IF IsNaN(y) THEN x
    ELSE IF FCmp(x, y) <= 0 THEN x ELSE y

\* The sum of sx * mx * 2^e and sy * my * 2^e, where c compares mx with my.
AddCompared(sx, mx, sy, my, e, c) ==
    IF sx # sy /\ c = 0 THEN Zero(1)
    ELSE Round(IF sx = sy \/ c > 0 THEN sx ELSE sy,
               IF sx = sy THEN BAdd(mx, my)
               ELSE IF c > 0 THEN BSub(mx, my)
               ELSE BSub(my, mx),
               e)

AddAligned(sx, mx, sy, my, e) == AddCompared(sx, mx, sy, my, e, BCmp(mx, my))

\* The sum of two finite non-zero values with both mantissas brought to the
\* exponent e, the lesser of the two.
AddAt(x, y, e) ==
    AddAligned(x[2], BShl(x[3], x[4] - e), y[2], BShl(y[3], y[4] - e), e)

\* The sum of two finite non-zero values whose top bits are at tx and ty:
\* an operand too small to reach the rounding of the other is absorbed.
AddTops(x, y, tx, ty) ==
    IF tx - ty > MantBits + 8 THEN x
    ELSE IF ty - tx > MantBits + 8 THEN y
    ELSE AddAt(x, y, IF x[4] < y[4] THEN x[4] ELSE y[4])

\* The sum of two finite values.
AddFinite(x, y) ==
    IF IsZero(x) /\ IsZero(y) THEN Zero(IF x[2] = -1 /\ y[2] = -1 THEN -1 ELSE 1)
    ELSE IF IsZero(x) THEN y
    ELSE IF IsZero(y) THEN x
    ELSE AddTops(x, y, BBitLen(x[3]) + x[4], BBitLen(y[3]) + y[4])

FAdd(x, y) ==
    IF IsNaN(x) \/ IsNaN(y) THEN NaN
    ELSE IF IsInf(x) /\ IsInf(y) THEN (IF x[2] = y[2] THEN x ELSE NaN)
    ELSE IF IsInf(x) THEN x
    ELSE IF IsInf(y) THEN y
    ELSE AddFinite(x, y)

FSub(x, y) == FAdd(x, FNeg(y))

FMul(x, y) ==
    IF IsNaN(x) \/ IsNaN(y) THEN NaN
    ELSE IF IsInf(x) \/ IsInf(y)
    THEN (IF IsZero(x) \/ IsZero(y) THEN NaN ELSE Inf(x[2] * y[2]))
    ELSE Round(x[2] * y[2], BMul(x[3], y[3]), x[4] + y[4])

\* The quotient and remainder qr as one natural: a non-zero remainder is
\* kept as a sticky bit below the quotient.
WithSticky(qr) ==
    IF qr[2] = <<>> THEN BShl(qr[1], 1) ELSE BAdd(BShl(qr[1], 1), <<1>>)

\* The quotient of two finite non-zero values whose mantissas have lx and
\* ly bits: both mantissas are shifted to 4 limbs, the dividend 4 limbs
\* further.
DivLens(x, y, lx, ly) ==
    Round(x[2] * y[2],
          WithSticky(BDivMod(BShl(x[3], 8 * LimbBits - lx),
                             BShl(y[3], 4 * LimbBits - ly))),
          x[4] - y[4] - (8 * LimbBits - lx) + (4 * LimbBits - ly) - 1)

DivFinite(x, y) == DivLens(x, y, BBitLen(x[3]), BBitLen(y[3]))

FDiv(x, y) ==
    IF IsNaN(x) \/ IsNaN(y) THEN NaN
    ELSE IF IsInf(x) THEN (IF IsInf(y) THEN NaN ELSE Inf(x[2] * y[2]))
    ELSE IF IsInf(y) THEN Zero(x[2] * y[2])
    ELSE IF IsZero(y) THEN (IF IsZero(x) THEN NaN ELSE Inf(x[2] * y[2]))
    ELSE IF IsZero(x) THEN Zero(x[2] * y[2])
    ELSE DivFinite(x, y)

\* The natural t as a u8, saturating.
SaturateU8(t) == IF BCmp(t, <<255>>) > 0 THEN 255 ELSE Limb(t, 1)

\* `x as u8`: truncation toward zero, saturating; NaN gives 0.
AsU8(x) ==
    IF IsNaN(x) THEN 0
    ELSE IF x[2] = -1 THEN 0
    ELSE IF IsInf(x) THEN 255
    ELSE IF x[4] >= 0 THEN (IF x[3] = <<>> THEN 0 ELSE 255)
    ELSE SaturateU8(BShr(x[3], -x[4]))

\* The f64 literal n/d: the binary64 nearest to the quotient of naturals.
Lit(n, d) == FDiv(AsF64(n), AsF64(d))

\* f64::MAX, the largest finite value.
MaxF64 == <<"num", 1, BSub(BShl(<<1>>, MantBits), <<1>>), MaxTop - MantBits>>

---------------------------------------------------------------------------
(* Entry classifier: is_early_entry (lib.rs:164-170).                      *)

\* u64 subtraction: exact when a >= b; on underflow a debug build panics and
\* a release build wraps modulo the word size.
U64Sub(a, b) ==
    IF a >= b
    THEN {[panic |-> FALSE, val |-> a - b]}
    ELSE {[panic |-> TRUE, val |-> 0],
          [panic |-> FALSE, val |-> (a - b) % (MaxTime + 1)]}

\* The mutant of the guard: the early return is never taken.
PrecedesCreationNever(bt, ct) == FALSE

\* lib.rs:165  `if block_time < token_creation_time`
PrecedesCreation(bt, ct) == bt < ct

\* lib.rs:169  `time_diff <= window_seconds`
WithinWindow(diff, window) == diff <= window

EntryInputs ==
    /\ pc = "is_early_entry"
    /\ block_time \in 0..MaxTime
    /\ token_creation_time \in 0..MaxTime
    /\ window_seconds \in 0..MaxTime
    /\ time_diff = 0
    /\ early = FALSE

\* lib.rs:165-167: the guard and the early `return false`.
EntryGuard ==
    /\ pc = "is_early_entry"
    /\ IF PrecedesCreation(block_time, token_creation_time)
       THEN /\ early' = FALSE
            /\ pc' = "entry_return"
       ELSE /\ early' = early
            /\ pc' = "time_diff"
    /\ UNCHANGED <<block_time, token_creation_time, window_seconds, time_diff>>
    /\ UNCHANGED <<score_vars, agg_vars, cluster_vars>>

\* lib.rs:168-169: the subtraction and the comparison with the window.
EntrySubtract ==
    /\ pc = "time_diff"
    /\ \E d \in U64Sub(block_time, token_creation_time) :
          IF d.panic
          THEN /\ pc' = "entry_panic"
               /\ UNCHANGED <<time_diff, early>>
          ELSE /\ time_diff' = d.val
               /\ early' = WithinWindow(d.val, window_seconds)
               /\ pc' = "entry_return"
    /\ UNCHANGED <<block_time, token_creation_time, window_seconds>>
    /\ UNCHANGED <<score_vars, agg_vars, cluster_vars>>

---------------------------------------------------------------------------
(* Scoring engine: calculate_whale_score (lib.rs:36-69),                   *)
(* calculate_insider_confidence (lib.rs:77-115) and                        *)
(* DynamicScorer::calculate_score (scoring.rs:28-44).                      *)

\* The mutant of the final cast: the cap at 100 is forgotten.
ScoreAsU8NoCap(total) == AsU8(total)

\* lib.rs:68, lib.rs:114, scoring.rs:43  `(total.min(100.0)) as u8`
ScoreAsU8(total) == AsU8(FMin(total, AsF64(100)))

\* lib.rs:41-66: total_score of calculate_whale_score, for interaction_count > 0.
whale_total(s) ==
    LET early_entry_ratio ==
            FDiv(AsF64(s.early_entry_count), AsF64(s.interaction_count))
        ratio_score == FMin(FMul(early_entry_ratio, AsF64(20)), AsF64(20))
        count_score == FMin(FMul(AsF64(s.early_entry_count), AsF64(2)), AsF64(20))
        early_entry_score == FAdd(ratio_score, count_score)
        avg_size_score ==
            FMin(FMul(FDiv(s.average_entry_size, AsF64(50)), AsF64(20)), AsF64(20))
        volume_score ==
            FMin(FMul(FDiv(s.total_volume_sol, AsF64(500)), AsF64(10)), AsF64(10))
        buy_size_score == FAdd(avg_size_score, volume_score)
        repetition_score ==
            FMin(FMul(FDiv(AsF64(s.interaction_count), AsF64(50)), AsF64(20)),
                 AsF64(20))
        profit_score == FMul(s.winrate_proxy, AsF64(10))
    IN  FAdd(FAdd(FAdd(early_entry_score, buy_size_score), repetition_score),
             profit_score)

\* lib.rs:36-69
calculate_whale_score(s) ==
    IF s.interaction_count = 0 THEN 0 ELSE ScoreAsU8(whale_total(s))

\* scoring.rs:15-24  impl Default for DynamicScorer
DefaultScorer ==
    [early_entry_weight |-> AsF64(40), buy_size_weight |-> AsF64(30),
     repetition_weight  |-> AsF64(20), profit_weight   |-> AsF64(10)]

\* scoring.rs:33-42: total of calculate_score, for interaction_count > 0.
dynamic_total(self, s) ==
    LET early_ratio ==
            FDiv(AsF64(s.early_entry_count), AsF64(s.interaction_count))
        early_score ==
            FMin(FMul(early_ratio, self.early_entry_weight), self.early_entry_weight)
        size_score ==
            FMin(FMul(FDiv(s.average_entry_size, AsF64(50)), self.buy_size_weight),
                 self.buy_size_weight)
        rep_score ==
            FMin(FMul(FDiv(AsF64(s.interaction_count), AsF64(50)),
                      self.repetition_weight),
                 self.repetition_weight)
        profit_score == FMul(s.winrate_proxy, self.profit_weight)
    IN  FAdd(FAdd(FAdd(early_score, size_score), rep_score), profit_score)

\* scoring.rs:28-44
calculate_score(self, s) ==
    IF s.interaction_count = 0 THEN 0 ELSE ScoreAsU8(dynamic_total(self, s))

\* lib.rs:88-112: confidence of calculate_insider_confidence, for
\* total_interactions > 0.  The divisions are reached only when the
\* comparison before them fails, as in the code.
insider_total(a) ==
    LET c0 == AsF64(0)
        c1 == IF a.early_entry_count >= a.min_repetitions
              THEN FAdd(c0, FMul(FDiv(AsF64(a.early_entry_count),
                                      AsF64(a.total_interactions)), AsF64(40)))
              ELSE c0
        c2 == FAdd(c1, IF FGe(a.avg_buy_size, a.min_threshold)
                       THEN AsF64(30)
                       ELSE FMul(FDiv(a.avg_buy_size, a.min_threshold), AsF64(30)))
        c3 == FAdd(c2, IF FGe(a.avg_buy_size, FMul(a.min_threshold, AsF64(2)))
                       THEN AsF64(20)
                       ELSE FMin(FMul(FDiv(a.avg_buy_size,
                                           FMul(a.min_threshold, AsF64(2))),
                                      AsF64(20)), AsF64(20)))
    IN  FAdd(c3, AsF64(10))

\* lib.rs:77-115
calculate_insider_confidence(a) ==
    IF a.total_interactions = 0 THEN 0 ELSE ScoreAsU8(insider_total(a))

\* Counts drawn for the scorers: the small ones, the saturation points of
\* the formulas (50 interactions, 10 early entries), and 9 and 36
\* interactions, whose repetition components (9/50)*20 and (36/50)*20 are
\* rounded below 3.6 and 14.4 and take a total below the integer that the
\* exact sum reaches.
CountValues == (0..MaxCount) \cup {9, 10, 36, 50, 100}
EarlyValues == (0..MaxCount) \cup {10, 50}
SizeValues  == {AsF64(0), AsF64(1), Lit(25, 2), AsF64(25), AsF64(50), AsF64(100)}
VolumeValues == {AsF64(0), AsF64(125), AsF64(500), AsF64(1000)}
\* winrate_proxy: the documented range [0,1] and one value above it.
WinrateValues == {AsF64(0), Lit(1, 4), Lit(1, 2), AsF64(1), AsF64(5)}

\* lib.rs:11-18  struct WalletStats
ScoreInputs ==
    [address : {"test"},
     total_volume_sol : VolumeValues,
     interaction_count : CountValues,
     average_entry_size : SizeValues,
     early_entry_count : EarlyValues,
     winrate_proxy : WinrateValues]

\* lib.rs:77-83: the parameters of calculate_insider_confidence.  With 1 of
\* 3 interactions early, an average of 10 and a threshold of 15 the exact
\* confidence is 50 and the rounded one is below it.
InsiderInputs ==
    [early_entry_count : EarlyValues,
     total_interactions : CountValues,
     avg_buy_size : {AsF64(0), Lit(5, 2), AsF64(5), AsF64(10), AsF64(20)},
     min_threshold : {AsF64(0), AsF64(5), AsF64(10), AsF64(15), MaxF64},
     min_repetitions : 0..MaxCount]

NoStats ==
    [address |-> "", total_volume_sol |-> AsF64(0), interaction_count |-> 0,
     average_entry_size |-> AsF64(0), early_entry_count |-> 0,
     winrate_proxy |-> AsF64(0)]

NoInsiderArgs ==
    [early_entry_count |-> 0, total_interactions |-> 0, avg_buy_size |-> AsF64(0),
     min_threshold |-> AsF64(0), min_repetitions |-> 0]

ScoreCallInputs ==
    /\ whale_score = 0
    /\ dynamic_score = 0
    /\ insider_confidence = 0
    /\ \/ /\ pc = "calculate_whale_score"
          /\ stats \in ScoreInputs
          /\ insider_args = NoInsiderArgs
       \/ /\ pc = "calculate_insider_confidence"
          /\ stats = NoStats
          /\ insider_args \in InsiderInputs

\* lib.rs:36-69 applied to stats.
CalculateWhaleScore ==
    /\ pc = "calculate_whale_score"
    /\ whale_score' = calculate_whale_score(stats)
    /\ pc' = "calculate_score"
    /\ UNCHANGED <<stats, dynamic_score, insider_args, insider_confidence>>
    /\ UNCHANGED <<entry_vars, agg_vars, cluster_vars>>

\* scoring.rs:28-44 applied to the same stats with DynamicScorer::default().
CalculateScore ==
    /\ pc = "calculate_score"
    /\ dynamic_score' = calculate_score(DefaultScorer, stats)
    /\ pc' = "score_return"
    /\ UNCHANGED <<stats, whale_score, insider_args, insider_confidence>>
    /\ UNCHANGED <<entry_vars, agg_vars, cluster_vars>>

\* lib.rs:77-115 applied to insider_args.
CalculateInsiderConfidence ==
    /\ pc = "calculate_insider_confidence"
    /\ insider_confidence' = calculate_insider_confidence(insider_args)
    /\ pc' = "confidence_return"
    /\ UNCHANGED <<stats, whale_score, dynamic_score, insider_args>>
    /\ UNCHANGED <<entry_vars, agg_vars, cluster_vars>>

---------------------------------------------------------------------------
(* Aggregator: process_interactions (lib.rs:118-151), group_by_wallet      *)
(* (lib.rs:173-184) and calculate_batch_stats (lib.rs:187-199).            *)

\* lib.rs:130  `interactions.iter().map(|i| i.sol_amount).sum()`: a left fold
\* from the additive identity -0.0, which leaves every first amount unchanged.
RECURSIVE sum_sol_amount(_, _, _)
sum_sol_amount(ints, k, acc) ==
    IF k > Len(ints) THEN acc
    ELSE sum_sol_amount(ints, k + 1, FAdd(acc, ints[k].sol_amount))

\* lib.rs:133  `interactions.iter().filter(|i| i.is_early_entry).count()`
RECURSIVE count_early(_, _, _)
count_early(ints, k, acc) ==
    IF k > Len(ints) THEN acc
    ELSE count_early(ints, k + 1, IF ints[k].is_early_entry THEN acc + 1 ELSE acc)

\* The mutant of the winrate proxy: the `.min(1.0)` is forgotten.
winrate_proxy_of_uncapped(early_entry_count, interaction_count) ==
    IF interaction_count > 0
    THEN FMul(FDiv(AsF64(early_entry_count), AsF64(interaction_count)), Lit(3, 2))
    ELSE Lit(3, 10)

\* lib.rs:137-141
winrate_proxy_of(early_entry_count, interaction_count) ==
    IF interaction_count > 0
    THEN FMin(FMul(FDiv(AsF64(early_entry_count), AsF64(interaction_count)),
                   Lit(3, 2)),
              AsF64(1))
    ELSE Lit(3, 10)

\* lib.rs:118-151
process_interactions(ints) ==
    IF Len(ints) = 0
    THEN [address |-> "", total_volume_sol |-> AsF64(0), interaction_count |-> 0,
          average_entry_size |-> AsF64(0), early_entry_count |-> 0,
          winrate_proxy |-> AsF64(0)]
    ELSE LET total_volume == sum_sol_amount(ints, 1, Zero(-1))
             interaction_count == Len(ints)
             average_entry_size == FDiv(total_volume, AsF64(interaction_count))
             early_entry_count == count_early(ints, 1, 0)
             winrate_proxy == winrate_proxy_of(early_entry_count, interaction_count)
         IN  [address |-> ints[1].wallet_address,
              total_volume_sol |-> total_volume,
              interaction_count |-> interaction_count,
              average_entry_size |-> average_entry_size,
              early_entry_count |-> early_entry_count,
              winrate_proxy |-> winrate_proxy]

\* The mutant of the grouping step: `insert(vec![interaction])` instead of
\* `entry(..).or_insert_with(Vec::new).push(..)`, which drops the earlier records.
group_insert_overwrite(grouped, interaction) ==
    [a \in DOMAIN grouped \cup {interaction.wallet_address} |->
        IF a = interaction.wallet_address THEN <<interaction>> ELSE grouped[a]]

\* lib.rs:177-180: one iteration of the loop of group_by_wallet.  A HashMap is
\* a function from its keys.
group_insert(grouped, interaction) ==
    [a \in DOMAIN grouped \cup {interaction.wallet_address} |->
        IF a = interaction.wallet_address
        THEN Append(IF a \in DOMAIN grouped THEN grouped[a] ELSE <<>>, interaction)
        ELSE grouped[a]]

RECURSIVE group_loop(_, _, _)
\* lib.rs:176-181
group_loop(ints, k, grouped) ==
    IF k > Len(ints) THEN grouped
    ELSE group_loop(ints, k + 1, group_insert(grouped, ints[k]))

\* The empty HashMap.
EmptyMap == [a \in {} |-> <<>>]

\* lib.rs:173-184
group_by_wallet(ints) == group_loop(ints, 1, EmptyMap)

\* lib.rs:187-199.  The loop inserts one entry per key of `grouped`, so the
\* order in which it visits `grouped` does not show in the result.
calculate_batch_stats(ints) ==
    LET grouped == group_by_wallet(ints)
    IN  [address \in DOMAIN grouped |-> process_interactions(grouped[address])]

\* lib.rs:21-27  struct TokenInteraction
InteractionInputs ==
    [wallet_address : {"addr1", "addr2"},
     token_mint : {"token1"},
     block_time : {1000},
     sol_amount : {AsF64(10), AsF64(20), Lit(5, 2)},
     is_early_entry : BOOLEAN]

\* The interaction sequences of length at most n.
SeqsUpTo(S, n) == UNION {[1..k -> S] : k \in 0..n}

AggInputs ==
    /\ pc = "process_interactions"
    /\ interactions \in SeqsUpTo(InteractionInputs, MaxInteractions)
    /\ wallet_stats = NoStats
    /\ batch_stats = EmptyMap

\* lib.rs:118-151 applied to the whole sequence.
ProcessInteractions ==
    /\ pc = "process_interactions"
    /\ wallet_stats' = process_interactions(interactions)
    /\ pc' = "calculate_batch_stats"
    /\ UNCHANGED <<interactions, batch_stats>>
    /\ UNCHANGED <<entry_vars, score_vars, cluster_vars>>

\* lib.rs:187-199 applied to the same sequence.
CalculateBatchStats ==
    /\ pc = "calculate_batch_stats"
    /\ batch_stats' = calculate_batch_stats(interactions)
    /\ pc' = "aggregate_return"
    /\ UNCHANGED <<interactions, wallet_stats>>
    /\ UNCHANGED <<entry_vars, score_vars, cluster_vars>>

---------------------------------------------------------------------------
(* Wallet clusterer: WalletClusterer::cluster_wallets (scoring.rs:98-127)  *)
(* and WalletClusterer::similarity (scoring.rs:129-139).                   *)

\* The mutant of similarity for identical wallets: the winrate term is the
\* distance instead of one minus the distance.
similarity_distance(stats1, stats2) ==
    LET volume_sim ==
            FSub(AsF64(1),
                 FDiv(FAbs(FSub(stats1.total_volume_sol, stats2.total_volume_sol)),
                      FAdd(FAdd(stats1.total_volume_sol, stats2.total_volume_sol),
                           AsF64(1))))
        size_sim ==
            FSub(AsF64(1),
                 FDiv(FAbs(FSub(stats1.average_entry_size, stats2.average_entry_size)),
                      FAdd(FAdd(stats1.average_entry_size, stats2.average_entry_size),
                           AsF64(1))))
        ratio_sim == FAbs(FSub(stats1.winrate_proxy, stats2.winrate_proxy))
    IN  FDiv(FAdd(FAdd(volume_sim, size_sim), ratio_sim), AsF64(3))

\* The mutant of similarity for the upper bound: the winrate distance is added
\* instead of subtracted.
similarity_plus(stats1, stats2) ==
    LET volume_sim ==
            FSub(AsF64(1),
                 FDiv(FAbs(FSub(stats1.total_volume_sol, stats2.total_volume_sol)),
                      FAdd(FAdd(stats1.total_volume_sol, stats2.total_volume_sol),
                           AsF64(1))))
        size_sim ==
            FSub(AsF64(1),
                 FDiv(FAbs(FSub(stats1.average_entry_size, stats2.average_entry_size)),
                      FAdd(FAdd(stats1.average_entry_size, stats2.average_entry_size),
                           AsF64(1))))
        ratio_sim ==
            FAdd(AsF64(1), FAbs(FSub(stats1.winrate_proxy, stats2.winrate_proxy)))
    IN  FDiv(FAdd(FAdd(volume_sim, size_sim), ratio_sim), AsF64(3))

\* scoring.rs:129-139
similarity(stats1, stats2) ==
    LET volume_sim ==
            FSub(AsF64(1),
                 FDiv(FAbs(FSub(stats1.total_volume_sol, stats2.total_volume_sol)),
                      FAdd(FAdd(stats1.total_volume_sol, stats2.total_volume_sol),
                           AsF64(1))))
        size_sim ==
            FSub(AsF64(1),
                 FDiv(FAbs(FSub(stats1.average_entry_size, stats2.average_entry_size)),
                      FAdd(FAdd(stats1.average_entry_size, stats2.average_entry_size),
                           AsF64(1))))
        ratio_sim ==
            FSub(AsF64(1), FAbs(FSub(stats1.winrate_proxy, stats2.winrate_proxy)))
    IN  FDiv(FAdd(FAdd(volume_sim, size_sim), ratio_sim), AsF64(3))

\* lib.rs:11-18: the WalletStats drawn for the clusterer (address filled in
\* per key).  The fourth has negative volume and entry size, outside the
\* documented invariant of WalletStats.  The similarity of the fifth and the
\* sixth is 1/4 over the rationals and the binary64 below 1/4 in the code.
\* The last has the infinite volume that the sum of finite amounts can
\* overflow to.
ClusterProfiles ==
    {[address |-> "", total_volume_sol |-> AsF64(0), interaction_count |-> 2,
      average_entry_size |-> AsF64(0), early_entry_count |-> 0,
      winrate_proxy |-> AsF64(0)],
     [address |-> "", total_volume_sol |-> AsF64(0), interaction_count |-> 2,
      average_entry_size |-> AsF64(0), early_entry_count |-> 1,
      winrate_proxy |-> Lit(1, 2)],
     [address |-> "", total_volume_sol |-> AsF64(10), interaction_count |-> 2,
      average_entry_size |-> AsF64(5), early_entry_count |-> 1,
      winrate_proxy |-> Lit(1, 2)],
     [address |-> "", total_volume_sol |-> FNeg(AsF64(3)), interaction_count |-> 1,
      average_entry_size |-> FNeg(AsF64(3)), early_entry_count |-> 0,
      winrate_proxy |-> AsF64(0)],
     [address |-> "", total_volume_sol |-> AsF64(0), interaction_count |-> 1,
      average_entry_size |-> AsF64(3), early_entry_count |-> 0,
      winrate_proxy |-> AsF64(0)],
     [address |-> "", total_volume_sol |-> AsF64(5), interaction_count |-> 1,
      average_entry_size |-> AsF64(8), early_entry_count |-> 1,
      winrate_proxy |-> AsF64(1)],
     [address |-> "", total_volume_sol |-> Inf(1), interaction_count |-> 2,
      average_entry_size |-> AsF64(5), early_entry_count |-> 1,
      winrate_proxy |-> Lit(1, 2)]}

\* The numeric fields of a WalletStats.
Figures(s) == [s EXCEPT !.address = ""]

\* similarity is a pure function of the numeric fields of its two arguments:
\* its values on the profiles drawn are computed once.
ProfileSimilarity ==
    {<<p[1], p[2], similarity(p[1], p[2])>> : p \in ClusterProfiles \X ClusterProfiles}

\* scoring.rs:115  `self.similarity(stats1, stats2)`: the value of similarity,
\* looked up where it has been computed already.
similarity_of(stats1, stats2) ==
    LET known == {t \in ProfileSimilarity :
                     t[1] = Figures(stats1) /\ t[2] = Figures(stats2)}
    IN  IF known # {}
        THEN (CHOOSE t \in known : TRUE)[3]
        ELSE similarity(stats1, stats2)

\* The mutant of the comparison: `>` instead of `>=`.
meets_threshold_strict(sim, threshold) == FGt(sim, threshold)

\* scoring.rs:115  `self.similarity(stats1, stats2) >= self.similarity_threshold`
meets_threshold(sim, threshold) == FGe(sim, threshold)

\* The mutant of the inner skip: only the seed itself is skipped.
skip_candidate_self_only(assigned, addr1, addr2) == addr1 = addr2

\* scoring.rs:111  `assigned.contains(addr2) || addr1 == addr2`
skip_candidate(assigned, addr1, addr2) == addr2 \in assigned \/ addr1 = addr2

\* The mutant of the inner loop body: the member is pushed but not recorded
\* in `assigned`.
inner_step_no_insert(map, threshold, addr1, addr2, st) ==
    IF skip_candidate(st.assigned, addr1, addr2) THEN st
    ELSE IF meets_threshold(similarity_of(map[addr1], map[addr2]), threshold)
    THEN [cluster |-> Append(st.cluster, addr2), assigned |-> st.assigned]
    ELSE st

\* scoring.rs:110-119: one iteration of the inner loop; st holds `cluster`
\* and `assigned`.
inner_step(map, threshold, addr1, addr2, st) ==
    IF skip_candidate(st.assigned, addr1, addr2) THEN st
    ELSE IF meets_threshold(similarity_of(map[addr1], map[addr2]), threshold)
    THEN [cluster |-> Append(st.cluster, addr2),
          assigned |-> st.assigned \cup {addr2}]
    ELSE st

RECURSIVE inner_loop(_, _, _, _, _, _)
\* scoring.rs:110-119: the inner loop visits the map in its iteration order.
inner_loop(map, threshold, order, addr1, j, st) ==
    IF j > Len(order) THEN st
    ELSE inner_loop(map, threshold, order, addr1, j + 1,
                    inner_step(map, threshold, addr1, order[j], st))

\* scoring.rs:102-124: one iteration of the outer loop; st holds `clusters`
\* and `assigned`.
outer_step(map, threshold, order, addr1, st) ==
    IF addr1 \in st.assigned THEN st
    ELSE LET scanned ==
                 inner_loop(map, threshold, order, addr1, 1,
                            [cluster |-> <<addr1>>,
                             assigned |-> st.assigned \cup {addr1}])
         IN  [clusters |-> IF scanned.cluster # <<>>
                           THEN Append(st.clusters, scanned.cluster)
                           ELSE st.clusters,
              assigned |-> scanned.assigned]

RECURSIVE outer_loop(_, _, _, _, _)
\* scoring.rs:102-124
outer_loop(map, threshold, order, i, st) ==
    IF i > Len(order) THEN st
    ELSE outer_loop(map, threshold, order, i + 1,
                    outer_step(map, threshold, order, order[i], st))

\* scoring.rs:98-127.  `order` is the iteration order of the HashMap: a
\* permutation of its keys, the same for both loops since the map is not
\* modified between them.
cluster_wallets(map, threshold, order) ==
    outer_loop(map, threshold, order, 1, [clusters |-> <<>>, assigned |-> {}]).clusters

\* Wallet addresses; a stats map holds at most MaxWallets of them.
AddressPool == <<"w1", "w2", "w3", "w4", "w5", "w6">>
Addresses == {AddressPool[k] : k \in 1..MaxWallets}

\* scoring.rs:94  similarity_threshold: f64.  Among the first three profiles
\* the similarities are near 5/6, 83/198 and 25/99; with the negative profile
\* they reach 2; 1/4 is the threshold that the rounded similarity of the
\* fifth and sixth profiles misses.
ThresholdValues == {Lit(1, 4), Lit(1, 3), Lit(5, 6), AsF64(1), Lit(9, 8), NaN}

\* The iteration orders of a map with key set S: the permutations of S.
Orders(S) ==
    {o \in [1..Cardinality(S) -> S] : \A a \in S : \E k \in DOMAIN o : o[k] = a}

ClusterInputs ==
    /\ pc = "cluster_wallets"
    /\ \E S \in SUBSET Addresses :
          \E f \in [S -> ClusterProfiles] :
             stats_map = [a \in S |-> [f[a] EXCEPT !.address = a]]
    /\ similarity_threshold \in ThresholdValues
    /\ iter_order \in Orders(DOMAIN stats_map)
    /\ clusters = <<>>

\* scoring.rs:98-127 applied to stats_map, visited in iter_order.
ClusterWallets ==
    /\ pc = "cluster_wallets"
    /\ clusters' = cluster_wallets(stats_map, similarity_threshold, iter_order)
    /\ pc' = "cluster_return"
    /\ UNCHANGED <<stats_map, similarity_threshold, iter_order>>
    /\ UNCHANGED <<entry_vars, score_vars, agg_vars>>

---------------------------------------------------------------------------
(* Specifications: one per component.  The variables of the other          *)
(* components stay at their idle values.                                   *)

IdleEntry ==
    /\ block_time = 0
    /\ token_creation_time = 0
    /\ window_seconds = 0
    /\ time_diff = 0
    /\ early = FALSE

IdleScore ==
    /\ stats = NoStats
    /\ whale_score = 0
    /\ dynamic_score = 0
    /\ insider_args = NoInsiderArgs
    /\ insider_confidence = 0

IdleAgg ==
    /\ interactions = <<>>
    /\ wallet_stats = NoStats
    /\ batch_stats = EmptyMap

IdleCluster ==
    /\ stats_map = EmptyMap
    /\ similarity_threshold = AsF64(0)
    /\ iter_order = <<>>
    /\ clusters = <<>>

InitEntry == EntryInputs /\ IdleScore /\ IdleAgg /\ IdleCluster
NextEntry == EntryGuard \/ EntrySubtract
SpecEntry == InitEntry /\ [][NextEntry]_vars

InitScore == ScoreCallInputs /\ IdleEntry /\ IdleAgg /\ IdleCluster
NextScore == CalculateWhaleScore \/ CalculateScore \/ CalculateInsiderConfidence
SpecScore == InitScore /\ [][NextScore]_vars

InitAgg == AggInputs /\ IdleEntry /\ IdleScore /\ IdleCluster
NextAgg == ProcessInteractions \/ CalculateBatchStats
SpecAgg == InitAgg /\ [][NextAgg]_vars

InitCluster == ClusterInputs /\ IdleEntry /\ IdleScore /\ IdleAgg
NextCluster == ClusterWallets
SpecCluster == InitCluster /\ [][NextCluster]_vars

Init == InitEntry \/ InitScore \/ InitAgg \/ InitCluster
Next == NextEntry \/ NextScore \/ NextAgg \/ NextCluster
Spec == Init /\ [][Next]_vars

---------------------------------------------------------------------------
(* Properties of the wallet clusterer, checked under SpecCluster.          *)

Wallets == DOMAIN stats_map

\* The places <<i, k>> of the returned list: member k of cluster i.
Places == UNION {{<<i, k>> : k \in DOMAIN clusters[i]} : i \in DOMAIN clusters}

\* A list of clusters read as a set of sets of addresses.
AsSets(cs) == {{cs[i][k] : k \in DOMAIN cs[i]} : i \in DOMAIN cs}

\* Whether wallet b is similar enough to wallet a, as the code compares them.
Similar(a, b) ==
    FGe(similarity_of(stats_map[a], stats_map[b]), similarity_threshold)

\* C1: cluster_wallets returns a partition of the map's addresses: no cluster
\* is empty, every listed address is a key of the map, and every key of the
\* map is listed at exactly one place.
C1_ExactlyOneCluster ==
    pc = "cluster_return" =>
        /\ \A i \in DOMAIN clusters : clusters[i] # <<>>
        /\ \A p \in Places : clusters[p[1]][p[2]] \in Wallets
        /\ \A a \in Wallets :
              Cardinality({p \in Places : clusters[p[1]][p[2]] = a}) = 1

\* C1 witness: three wallets end up in two clusters.
C1_Witness ==
    /\ pc = "cluster_return"
    /\ Cardinality(Wallets) = 3
    /\ Len(clusters) = 2

NonNegativeStats(s) ==
    /\ FGe(s.total_volume_sol, AsF64(0))
    /\ FGe(s.average_entry_size, AsF64(0))
    /\ FGe(s.winrate_proxy, AsF64(0))

FiniteStats(s) ==
    /\ ~IsInf(s.total_volume_sol)
    /\ ~IsInf(s.average_entry_size)
    /\ ~IsInf(s.winrate_proxy)

TwoIdenticalWallets ==
    /\ Cardinality(Wallets) = 2
    /\ \A a, b \in Wallets : Figures(stats_map[a]) = Figures(stats_map[b])
    /\ \A a \in Wallets : NonNegativeStats(stats_map[a])

BothInOneCluster ==
    /\ Len(clusters) = 1
    /\ Len(clusters[1]) = 2
    /\ {clusters[1][k] : k \in 1..2} = Wallets

\* C6 as stated: two wallets with identical non-negative stats and a
\* threshold <= 1.0 give exactly one cluster, which holds both addresses, in
\* either order.
C6_IdenticalWalletsOneCluster ==
    (/\ pc = "cluster_return"
     /\ TwoIdenticalWallets
     /\ FLe(similarity_threshold, AsF64(1)))
    => BothInOneCluster

\* C6 amended: two wallets with identical stats whose fields are non-negative
\* and finite, and a threshold <= 1.0, give exactly one cluster, which holds
\* both addresses, in either order.
C6_IdenticalFiniteWalletsOneCluster ==
    (/\ pc = "cluster_return"
     /\ TwoIdenticalWallets
     /\ \A a \in Wallets : FiniteStats(stats_map[a])
     /\ FLe(similarity_threshold, AsF64(1)))
    => BothInOneCluster

\* C6 witness: two identical finite wallets with a non-zero volume clustered
\* at the threshold 1.0 itself.
C6_Witness ==
    /\ pc = "cluster_return"
    /\ TwoIdenticalWallets
    /\ \A a \in Wallets : /\ FiniteStats(stats_map[a])
                           /\ FGt(stats_map[a].total_volume_sol, AsF64(0))
    /\ similarity_threshold = AsF64(1)
    /\ BothInOneCluster

\* The documented invariant of WalletStats that C7 assumes.
InDocumentedRange(s) ==
    /\ FGe(s.total_volume_sol, AsF64(0))
    /\ FGe(s.average_entry_size, AsF64(0))
    /\ FGe(s.winrate_proxy, AsF64(0))
    /\ FLe(s.winrate_proxy, AsF64(1))

\* C7: with stats in the documented range and a threshold strictly above 1.0,
\* no pairwise similarity exceeds 1.0 and every wallet is a cluster of its own.
C7_ThresholdAboveOneSingletons ==
    (/\ pc = "cluster_return"
     /\ \A a \in Wallets : InDocumentedRange(stats_map[a])
     /\ FLt(AsF64(1), similarity_threshold))
    => /\ \A a, b \in Wallets :
             ~FGt(similarity_of(stats_map[a], stats_map[b]), AsF64(1))
       /\ Len(clusters) = Cardinality(Wallets)
       /\ \A i \in DOMAIN clusters : Len(clusters[i]) = 1

\* C7 witness: three wallets, two of them identical, stay apart at 9/8.
C7_Witness ==
    /\ pc = "cluster_return"
    /\ similarity_threshold = Lit(9, 8)
    /\ Cardinality(Wallets) = 3
    /\ \A a \in Wallets : InDocumentedRange(stats_map[a])
    /\ \E a, b \in Wallets : a # b /\ Figures(stats_map[a]) = Figures(stats_map[b])
    /\ Len(clusters) = 3

\* C9: the result is a star partition around seeds: every member of a cluster
\* after its first (the seed) is similar enough to the seed, and no member of
\* a later cluster, its seed included, is similar enough to an earlier seed.
C9_StarPartition ==
    pc = "cluster_return" =>
        /\ \A p \in Places :
              p[2] > 1 => Similar(clusters[p[1]][1], clusters[p[1]][p[2]])
        /\ \A p \in Places : \A i \in 1..(p[1] - 1) :
              ~Similar(clusters[i][1], clusters[p[1]][p[2]])

\* C9 witness: a cluster with a seed and a member, followed by another
\* cluster whose wallet is similar enough to that member but not to the seed.
C9_Witness ==
    /\ pc = "cluster_return"
    /\ Len(clusters) = 2
    /\ Len(clusters[1]) = 2
    /\ Similar(clusters[1][2], clusters[2][1])

\* C10 as stated: whatever the iteration order, the result read as a set of
\* sets is the one of this run.
C10_SamePartitionInEveryOrder ==
    pc = "cluster_return" =>
        \A o \in Orders(Wallets) :
            AsSets(cluster_wallets(stats_map, similarity_threshold, o))
                = AsSets(clusters)

\* The pairs of distinct wallets of the map that are similar enough.
SimilarPairs ==
    UNION {{<<a, b>> : b \in {c \in Wallets : c # a /\ Similar(a, c)}} :
              a \in Wallets}

\* Whether a relation over distinct wallets is transitive.
Transitive(R) ==
    \A p, q \in R :
        (p[2] = q[1] /\ p[1] # q[2]) => <<p[1], q[2]>> \in R

\* The classes of a relation over the wallets of the map.
Classes(R) == {{a} \cup {b \in Wallets : <<a, b>> \in R} : a \in Wallets}

\* C10 amended: when "similar enough" is transitive over the wallets of the
\* map, the result read as a set of sets is the set of classes of that
\* relation, which does not mention the iteration order: every order of the
\* same map and threshold gives the same set of sets.
C10_SamePartitionWhenTransitive ==
    pc = "cluster_return" =>
        LET R == SimilarPairs
        IN  Transitive(R) => AsSets(clusters) = Classes(R)

\* C10 witness: a transitive case with three wallets in two clusters.
C10_Witness ==
    /\ pc = "cluster_return"
    /\ Transitive(SimilarPairs)
    /\ Cardinality(Wallets) = 3
    /\ Len(clusters) = 2
    /\ \E a, b \in Wallets : a # b /\ Similar(a, b)

---------------------------------------------------------------------------
(* Properties of the entry classifier, checked under SpecEntry.            *)

\* C8: is_early_entry returns false when block_time < token_creation_time and
\* otherwise true exactly when block_time - token_creation_time (over the
\* integers) is at most window_seconds; the subtraction is reached only with
\* block_time >= token_creation_time, so it neither panics nor wraps.
C8_EarlyEntryWindow ==
    /\ pc = "time_diff" => block_time >= token_creation_time
    /\ pc # "entry_panic"
    /\ pc = "entry_return" =>
          /\ block_time < token_creation_time => early = FALSE
          /\ block_time >= token_creation_time =>
                /\ time_diff = block_time - token_creation_time
                /\ early = (block_time - token_creation_time <= window_seconds)

\* C8 witness: an entry exactly at the end of a non-empty window is early.
C8_Witness ==
    /\ pc = "entry_return"
    /\ window_seconds > 0
    /\ block_time - token_creation_time = window_seconds
    /\ early = TRUE

---------------------------------------------------------------------------
(* Properties of the scoring engine, checked under SpecScore.              *)

\* Whether the u8 result is the total capped at 100 and truncated toward zero.
CappedTruncation(result, total) ==
    IF FGe(total, AsF64(100))
    THEN result = 100
    ELSE /\ FLe(AsF64(result), total)
         /\ FLt(total, AsF64(result + 1))

\* C2: with the default weights, calculate_score returns the integer that
\* calculate_whale_score returns on the same WalletStats.
C2_DefaultDynamicEqualsWhale ==
    pc = "score_return" => dynamic_score = whale_score

\* C3: on non-negative inputs calculate_whale_score and
\* calculate_insider_confidence return an integer in 0..100, the sum of the
\* components capped at 100 and truncated toward zero.
C3_ScoresInRange ==
    /\ pc \in {"calculate_score", "score_return"} =>
          /\ whale_score \in 0..100
          /\ stats.interaction_count > 0 =>
                CappedTruncation(whale_score, whale_total(stats))
    /\ pc = "confidence_return" =>
          /\ insider_confidence \in 0..100
          /\ insider_args.total_interactions > 0 =>
                CappedTruncation(insider_confidence, insider_total(insider_args))

\* C3 witness: a profit component above its cap of 10 (winrate_proxy above 1)
\* takes the sum above 100, and the score is 100.
C3_Witness ==
    /\ pc = "score_return"
    /\ stats.interaction_count > 0
    /\ FLt(AsF64(1), stats.winrate_proxy)
    /\ FLt(AsF64(100), whale_total(stats))
    /\ whale_score = 100

---------------------------------------------------------------------------
(* Properties of the aggregator, checked under SpecAgg.                    *)

\* The sum of sol_amount of a non-empty sequence, from the last record to
\* the first.
RECURSIVE TotalOf(_)
TotalOf(ints) ==
    IF Len(ints) = 1 THEN ints[1].sol_amount
    ELSE FAdd(ints[Len(ints)].sol_amount, TotalOf(SubSeq(ints, 1, Len(ints) - 1)))

EarlyOf(ints) == Cardinality({k \in DOMAIN ints : ints[k].is_early_entry})

\* C4: process_interactions of a non-empty sequence returns the number of
\* records, the sum of their amounts, the number of early ones, the quotient
\* of sum and count, min(1, 1.5 * early / count) and the first record's
\* address; of the empty sequence it returns zeros and the empty address.
C4_ProcessInteractions ==
    pc \in {"calculate_batch_stats", "aggregate_return"} =>
        IF interactions = <<>>
        THEN wallet_stats =
                 [address |-> "", total_volume_sol |-> AsF64(0),
                  interaction_count |-> 0, average_entry_size |-> AsF64(0),
                  early_entry_count |-> 0, winrate_proxy |-> AsF64(0)]
        ELSE LET n == Len(interactions)
                 e == EarlyOf(interactions)
             IN  /\ wallet_stats.interaction_count = n
                 /\ wallet_stats.total_volume_sol = TotalOf(interactions)
                 /\ wallet_stats.early_entry_count = e
                 /\ wallet_stats.average_entry_size
                       = FDiv(wallet_stats.total_volume_sol, AsF64(n))
                 /\ wallet_stats.winrate_proxy
                       = FMin(AsF64(1), FMul(FDiv(AsF64(e), AsF64(n)), Lit(3, 2)))
                 /\ wallet_stats.address = interactions[1].wallet_address

\* C4 witness: three records, all early, so that the winrate proxy is capped.
C4_Witness ==
    /\ pc = "aggregate_return"
    /\ Len(interactions) = 3
    /\ wallet_stats.early_entry_count = 3
    /\ wallet_stats.winrate_proxy = AsF64(1)
    /\ interactions[1].sol_amount # interactions[2].sol_amount

\* The permutations of 1..n.
Permutations(n) ==
    {f \in [1..n -> 1..n] : \A k \in 1..n : \E j \in 1..n : f[j] = k}

Permuted(ints, f) == [k \in DOMAIN ints |-> ints[f[k]]]

SameWallet(ints) ==
    \A j, k \in DOMAIN ints : ints[j].wallet_address = ints[k].wallet_address

\* C5: every permutation of the interaction sequence gives the same
\* calculate_batch_stats map, and, when all records share one wallet, the
\* same process_interactions result.
C5_OrderIndependent ==
    pc = "aggregate_return" =>
        \A f \in Permutations(Len(interactions)) :
            /\ calculate_batch_stats(Permuted(interactions, f)) = batch_stats
            /\ SameWallet(interactions) =>
                  process_interactions(Permuted(interactions, f)) = wallet_stats

\* C5 witness: three records of two wallets with different amounts, the
\* first and the last of the same wallet.
C5_Witness ==
    /\ pc = "aggregate_return"
    /\ Len(interactions) = 3
    /\ interactions[1].wallet_address = interactions[3].wallet_address
    /\ interactions[1].wallet_address # interactions[2].wallet_address
    /\ interactions[1].sol_amount # interactions[3].sol_amount
    /\ DOMAIN batch_stats = {"addr1", "addr2"}

=============================================================================
